---- MODULE Spec2Model ----
(***************************************************************************)
(* Safety protocol of solana-pipkit: src/src/safety/validator.rs,          *)
(* src/src/safety/amount_validation.rs, src/src/safety/address_verify.rs.  *)
(*                                                                         *)
(* Strings are TLA+ strings (TLC treats them as sequences of characters),  *)
(* so str::contains, str::trim and format! are computed, not assumed.      *)
(* f64 values are IEEE-754 binary64 numbers with a 53-bit significand kept *)
(* as a sequence of bits; every f64 operation rounds to nearest, ties to   *)
(* even, as the hardware does.                                             *)
(***************************************************************************)
EXTENDS Integers, Sequences, FiniteSets, TLC

(***************************************************************************)
(* Bounds of the model.                                                    *)
(***************************************************************************)
MaxAmount == 21
BalanceUnit == 20
MaxBalanceUnits == 1
MaxDecimals == 1

(***************************************************************************)
(* str helpers (Rust std).                                                 *)
(***************************************************************************)
\* str::contains(needle)
Contains(s, needle) ==
  \E i \in 1..(Len(s) - Len(needle) + 1) : SubSeq(s, i, i + Len(needle) - 1) = needle

(***************************************************************************)
(* f64: IEEE-754 binary64.  A value is a record with cls one of "nan",     *)
(* "inf", "zero", "num"; a "num" is man * 2^(exp - 52) with man a sequence *)
(* of F64Digits bits, most significant first, man[1] = 1.  Only            *)
(* non-negative values occur (every f64 here comes from a u64).            *)
(***************************************************************************)
F64Digits == 53

F64NaN == [cls |-> "nan"]
F64Inf == [cls |-> "inf"]
F64Zero == [cls |-> "zero"]

Zeros(n) == IF n <= 0 THEN <<>> ELSE [i \in 1..n |-> 0]

AnyOne(bits) == \E i \in 1..Len(bits) : bits[i] = 1

Front(s) == SubSeq(s, 1, Len(s) - 1)

RECURSIVE Pow2(_)
Pow2(n) == IF n = 0 THEN 1 ELSE 2 * Pow2(n - 1)

\* the low w bits of n, most significant first
PadBits(n, w) == [i \in 1..w |-> (n \div Pow2(w - i)) % 2]

\* number of significant bits of n
RECURSIVE BitLen(_)
BitLen(n) == IF n = 0 THEN 0 ELSE 1 + BitLen(n \div 2)

\* binary digits of n, most significant first, no leading zero
IntToBits(n) == IF n = 0 THEN <<>> ELSE PadBits(n, BitLen(n))

\* arithmetic on bit strings is done a byte (8 bits) at a time; the results
\* do not depend on the width of the step

RECURSIVE BitsToInt(_)
BitsToInt(bits) ==
  IF Len(bits) = 0 THEN 0
  ELSE IF Len(bits) = 1 THEN bits[1]
  ELSE LET h == Len(bits) \div 2
       IN BitsToInt(SubSeq(bits, 1, h)) * Pow2(Len(bits) - h)
            + BitsToInt(SubSeq(bits, h + 1, Len(bits)))

StripTrailingZeros(bits) ==
  IF ~AnyOne(bits) THEN <<>>
  ELSE SubSeq(bits, 1, CHOOSE j \in 1..Len(bits) :
                         bits[j] = 1 /\ \A m \in (j + 1)..Len(bits) : bits[m] = 0)

\* bits + 1 for a bit string that is not all ones
IncBits(bits) ==
  LET j == CHOOSE k \in 1..Len(bits) :
             bits[k] = 0 /\ \A m \in (k + 1)..Len(bits) : bits[m] = 1
  IN [i \in 1..Len(bits) |-> IF i < j THEN bits[i] ELSE IF i = j THEN 1 ELSE 0]

\* Round the exact value (bits, then a non-zero tail iff sticky), whose
\* leading bit has weight 2^exp, to nearest, ties to even.
RoundF64(bits, sticky, exp) ==
  LET padded == bits \o Zeros(F64Digits + 1 - Len(bits))
      man == SubSeq(padded, 1, F64Digits)
      guard == padded[F64Digits + 1]
      rest == sticky \/ AnyOne(SubSeq(padded, F64Digits + 2, Len(padded)))
      up == guard = 1 /\ (rest \/ man[F64Digits] = 1)
  IN IF ~up THEN [cls |-> "num", exp |-> exp, man |-> man]
     ELSE IF \A i \in 1..F64Digits : man[i] = 1
          THEN [cls |-> "num", exp |-> exp + 1, man |-> <<1>> \o Zeros(F64Digits - 1)]
          ELSE [cls |-> "num", exp |-> exp, man |-> IncBits(man)]

\* `n as f64` for an unsigned integer n
F64FromU64(n) ==
  IF n = 0 THEN F64Zero
  ELSE RoundF64(IntToBits(n), FALSE, Len(IntToBits(n)) - 1)

\* the odd part of a significand and the weight of its last bit:
\* x = F64Odd(x) * 2^F64Shift(x)
F64Odd(x) == BitsToInt(StripTrailingZeros(x.man))
F64Shift(x) == x.exp - Len(StripTrailingZeros(x.man)) + 1

\* binary long division: the next n quotient bits of r / b, for r < b
RECURSIVE DivBits(_, _, _)
DivBits(r, b, n) ==
  IF n = 0 THEN <<>>
  ELSE LET w == IF n < 8 THEN n ELSE 8
       IN PadBits((r * Pow2(w)) \div b, w) \o DivBits((r * Pow2(w)) % b, b, n - w)

\* the remainder left after those n quotient bits
RECURSIVE DivRem(_, _, _)
DivRem(r, b, n) ==
  IF n = 0 THEN r
  ELSE LET w == IF n < 8 THEN n ELSE 8
       IN DivRem((r * Pow2(w)) % b, b, n - w)

\* number of leading zero bits of the binary fraction r / b, for 0 < r < b
RECURSIVE FracLeadingZeros(_, _)
FracLeadingZeros(r, b) == IF 2 * r >= b THEN 0 ELSE 1 + FracLeadingZeros(2 * r, b)

\* x / y, correctly rounded
F64Div(x, y) ==
  IF x.cls = "nan" \/ y.cls = "nan" THEN F64NaN
  ELSE IF x.cls = "inf" THEN (IF y.cls = "inf" THEN F64NaN ELSE F64Inf)
  ELSE IF y.cls = "inf" THEN F64Zero
  ELSE IF y.cls = "zero" THEN (IF x.cls = "zero" THEN F64NaN ELSE F64Inf)
  ELSE IF x.cls = "zero" THEN F64Zero
  ELSE
    LET a == F64Odd(x)
        b == F64Odd(y)
        sh == F64Shift(x) - F64Shift(y)
        q0 == a \div b
        r0 == a % b
        ib == IntToBits(q0)
        n == F64Digits + 1 - Len(ib)
        z == FracLeadingZeros(r0, b)
        rz == r0 * Pow2(z)
    IN IF q0 > 0
       THEN RoundF64(ib \o DivBits(r0, b, n), DivRem(r0, b, n) # 0, Len(ib) - 1 + sh)
       ELSE RoundF64(DivBits(rz, b, F64Digits + 1),
                     DivRem(rz, b, F64Digits + 1) # 0, sh - z - 1)

\* bits * k + carry, as a bit string (Len(bits) low bits, then the carry)
RECURSIVE MulBits(_, _, _)
MulBits(bits, k, carry) ==
  IF bits = <<>> THEN IntToBits(carry)
  ELSE LET w == IF Len(bits) < 8 THEN Len(bits) ELSE 8
           d == BitsToInt(SubSeq(bits, Len(bits) - w + 1, Len(bits))) * k + carry
       IN MulBits(SubSeq(bits, 1, Len(bits) - w), k, d \div Pow2(w))
            \o PadBits(d % Pow2(w), w)

\* x * y, correctly rounded
F64Mul(x, y) ==
  IF x.cls = "nan" \/ y.cls = "nan" THEN F64NaN
  ELSE IF x.cls = "inf" \/ y.cls = "inf"
       THEN (IF x.cls = "zero" \/ y.cls = "zero" THEN F64NaN ELSE F64Inf)
  ELSE IF x.cls = "zero" \/ y.cls = "zero" THEN F64Zero
  ELSE
    LET prod == MulBits(x.man, F64Odd(y), 0)
    IN RoundF64(prod, FALSE, x.exp + (Len(prod) - F64Digits) + F64Shift(y))

\* first index at which two bit strings of equal length differ, 0 if none
FirstDiff(a, b) ==
  IF a = b THEN 0 ELSE CHOOSE i \in 1..Len(a) : a[i] # b[i] /\ SubSeq(a, 1, i - 1) = SubSeq(b, 1, i - 1)

\* x > y (false when either is NaN)
F64Gt(x, y) ==
  IF x.cls = "nan" \/ y.cls = "nan" THEN FALSE
  ELSE IF y.cls = "inf" THEN FALSE
  ELSE IF x.cls = "inf" THEN TRUE
  ELSE IF x.cls = "zero" THEN FALSE
  ELSE IF y.cls = "zero" THEN TRUE
  ELSE IF x.exp # y.exp THEN x.exp > y.exp
  ELSE FirstDiff(x.man, y.man) # 0 /\ x.man[FirstDiff(x.man, y.man)] = 1

\* x == y (false when either is NaN)
F64Eq(x, y) == x.cls # "nan" /\ x = y

\* x >= y
F64Ge(x, y) == F64Gt(x, y) \/ F64Eq(x, y)

RECURSIVE Pow10(_)
Pow10(n) == IF n = 0 THEN 1 ELSE 10 * Pow10(n - 1)

RECURSIVE Repeat(_, _)
Repeat(s, n) == IF n <= 0 THEN "" ELSE s \o Repeat(s, n - 1)

\* the first n decimal digits of the binary fraction 0.frac, and the bits of
\* the fraction that is left
RECURSIVE FracDigits(_, _)
FracDigits(frac, n) ==
  IF n = 0 THEN [digits |-> "", rest |-> frac]
  ELSE LET scaled == MulBits(frac, 10, 0)
           g == Len(scaled) - Len(frac)
           next == FracDigits(SubSeq(scaled, g + 1, Len(scaled)), n - 1)
       IN [digits |-> ToString(BitsToInt(SubSeq(scaled, 1, g))) \o next.digits,
           rest |-> next.rest]

DigitValue(c) == CHOOSE d \in 0..9 : ToString(d) = c

\* a string of decimal digits plus one, for a string that is not all nines
IncDigits(s) ==
  LET j == CHOOSE k \in 1..Len(s) :
             SubSeq(s, k, k) # "9" /\ \A m \in (k + 1)..Len(s) : SubSeq(s, m, m) = "9"
  IN SubSeq(s, 1, j - 1) \o ToString(DigitValue(SubSeq(s, j, j)) + 1)
       \o Repeat("0", Len(s) - j)

\* format!("{:.prec$}", x): the exact value of x in decimal, rounded to prec
\* fractional digits (ties to even)
FormatFixed(x, prec) ==
  IF x.cls = "nan" THEN "NaN"
  ELSE IF x.cls = "inf" THEN "inf"
  ELSE
    LET ip == IF x.cls = "zero" \/ x.exp < 0 THEN 0
              ELSE BitsToInt(SubSeq(x.man, 1, x.exp + 1))
        frac == IF x.cls = "zero" THEN <<>>
                ELSE IF x.exp < 0 THEN Zeros(-x.exp - 1) \o x.man
                ELSE SubSeq(x.man, x.exp + 2, F64Digits)
        fd == FracDigits(frac, prec)
        odd == IF prec = 0 THEN ip % 2 = 1
               ELSE DigitValue(SubSeq(fd.digits, prec, prec)) % 2 = 1
        up == fd.rest # <<>> /\ fd.rest[1] = 1 /\ (AnyOne(Tail(fd.rest)) \/ odd)
        carry == up /\ fd.digits = Repeat("9", prec)
        digits == IF ~up THEN fd.digits
                  ELSE IF carry THEN Repeat("0", prec)
                  ELSE IncDigits(fd.digits)
        int == IF carry THEN ip + 1 ELSE ip
    IN IF prec = 0 THEN ToString(int)
       ELSE ToString(int) \o "." \o digits

(***************************************************************************)
(* Integer types.                                                          *)
(***************************************************************************)
U64Bits == 64

\* largest d with 10^d <= u64::MAX
MaxPow10Exp == 19

\* 10u64.pow(d) overflows u64: a panic when the build has overflow checks
Pow10Overflows(d) == d > MaxPow10Exp

\* 10u64.pow(d) when it does not panic: 10^d modulo 2^64, which is 0 from
\* d = 64 on, because 2^64 divides 10^64
WrappingPow10(d) == IF d >= U64Bits THEN 0 ELSE Pow10(d)

(***************************************************************************)
(* Pubkey (solana_sdk).  A key is represented by its base58 text, which is *)
(* what Pubkey::to_string returns; two keys are equal iff their texts are. *)
(***************************************************************************)
TEST_ADDR_1 == "7xKXtg2CW87d97TXJSDpbD5jBkheTqA83TZRuJosgAsU"
TEST_ADDR_2 == "9WzDXwBbmkg8ZTbNMqUxvQRAyrZzDsGYdLVL9zYtAWWM"

Pubkeys == {TEST_ADDR_1, TEST_ADDR_2}

Senders == {TEST_ADDR_1}

PubkeyToString(k) == k

\* Pubkey::from_str: the text of a key decodes to that key
PubkeyFromStr(s) == IF s \in Pubkeys THEN [ok |-> TRUE, pubkey |-> s]
                    ELSE [ok |-> FALSE, err |-> "Invalid Base58 string"]

(***************************************************************************)
(* safety/address_verify.rs                                                *)
(***************************************************************************)
IsWhitespace(c) == c \in {" ", "\t", "\n", "\r"}

\* trim_start in the place of trim
Trim_start_only(s) ==
  IF \A i \in 1..Len(s) : IsWhitespace(SubSeq(s, i, i)) THEN ""
  ELSE SubSeq(s, CHOOSE i \in 1..Len(s) :
                   /\ ~IsWhitespace(SubSeq(s, i, i))
                   /\ \A j \in 1..(i - 1) : IsWhitespace(SubSeq(s, j, j)),
              Len(s))

\* str::trim
Trim(s) ==
  IF \A i \in 1..Len(s) : IsWhitespace(SubSeq(s, i, i)) THEN ""
  ELSE LET a == CHOOSE i \in 1..Len(s) :
                  /\ ~IsWhitespace(SubSeq(s, i, i))
                  /\ \A j \in 1..(i - 1) : IsWhitespace(SubSeq(s, j, j))
           b == CHOOSE i \in 1..Len(s) :
                  /\ ~IsWhitespace(SubSeq(s, i, i))
                  /\ \A j \in (i + 1)..Len(s) : IsWhitespace(SubSeq(s, j, j))
       IN SubSeq(s, a, b)

Base58Alphabet == "123456789ABCDEFGHJKLMNPQRSTUVWXYZabcdefghijkmnopqrstuvwxyz"

is_valid_base58_char(c) == Contains(Base58Alphabet, c)

\* only the first character of s that is not base58
RECURSIVE InvalidCharsDebug_first_only(_, _)
InvalidCharsDebug_first_only(s, first) ==
  IF s = "" THEN ""
  ELSE IF is_valid_base58_char(Head(s)) THEN InvalidCharsDebug_first_only(Tail(s), first)
  ELSE "'" \o Head(s) \o "'"

\* the characters of s that are not base58, in order, as {:?} prints a Vec<char>
RECURSIVE InvalidCharsDebug(_, _)
InvalidCharsDebug(s, first) ==
  IF s = "" THEN ""
  ELSE IF is_valid_base58_char(Head(s)) THEN InvalidCharsDebug(Tail(s), first)
  ELSE (IF first THEN "" ELSE ", ") \o "'" \o Head(s) \o "'"
         \o InvalidCharsDebug(Tail(s), FALSE)

InvalidAddress(address, reason) == [ok |-> FALSE, address |-> address, reason |-> reason]

verify_address(address) ==
  IF address = "" THEN InvalidAddress(address, "Address cannot be empty")
  ELSE LET trimmed == Trim(address)
       IN IF Len(trimmed) < 32 \/ Len(trimmed) > 44
          THEN InvalidAddress(trimmed,
                 "Invalid length: expected 32-44 characters, got "
                   \o ToString(Len(trimmed)))
          ELSE IF \E i \in 1..Len(trimmed) : ~is_valid_base58_char(SubSeq(trimmed, i, i))
          THEN InvalidAddress(trimmed,
                 "Invalid base58 characters: [" \o InvalidCharsDebug(trimmed, TRUE)
                   \o "]. Base58 does not include 0, O, I, or l")
          ELSE IF PubkeyFromStr(trimmed).ok
          THEN [ok |-> TRUE, pubkey |-> PubkeyFromStr(trimmed).pubkey]
          ELSE InvalidAddress(trimmed,
                 "Failed to parse address: " \o PubkeyFromStr(trimmed).err)

\* Display of ToolkitError::InvalidAddress
DisplayInvalidAddress(e) == e.reason

format_address_short(pubkey) ==
  LET full == PubkeyToString(pubkey)
  IN IF Len(full) <= 8 THEN full
     ELSE SubSeq(full, 1, 4) \o "..." \o SubSeq(full, Len(full) - 3, Len(full))

\* Vec::get(i): the character at index i (counted from 0), "" for None
CharAt(chars, i) == IF i < Len(chars) THEN SubSeq(chars, i + 1, i + 1) ELSE ""

Max(a, b) == IF a >= b THEN a ELSE b

\* the comparison stops at the end of the shorter text
Differences_common_length(chars1, chars2) ==
  SelectSeq([k \in 1..(IF Len(chars1) <= Len(chars2) THEN Len(chars1) ELSE Len(chars2))
               |-> k - 1],
            LAMBDA i : CharAt(chars1, i) # CharAt(chars2, i))

\* the loop of compare_addresses: the indices at which the texts differ
Differences(chars1, chars2) ==
  SelectSeq([k \in 1..Max(Len(chars1), Len(chars2)) |-> k - 1],
            LAMBDA i : CharAt(chars1, i) # CharAt(chars2, i))

\* up to three differences pass for a typo
LikelyTypo_up_to_3(difference_count) == difference_count > 0 /\ difference_count <= 3

LikelyTypo(difference_count) == difference_count > 0 /\ difference_count <= 2

compare_addresses(addr1, addr2) ==
  LET trimmed1 == Trim(addr1)
      trimmed2 == Trim(addr2)
      differences == Differences(trimmed1, trimmed2)
  IN IF trimmed1 = trimmed2
     THEN [matches |-> TRUE, difference_count |-> 0,
           difference_positions |-> <<>>, likely_typo |-> FALSE]
     ELSE [matches |-> FALSE, difference_count |-> Len(differences),
           difference_positions |-> differences,
           likely_typo |-> LikelyTypo(Len(differences))]

(***************************************************************************)
(* safety/amount_validation.rs                                             *)
(***************************************************************************)
\* a negative f64; the code only looks at its sign
F64Negative == [cls |-> "neg"]

\* 2^e as an f64
F64TwoPow(e) == [cls |-> "num", exp |-> e, man |-> <<1>> \o Zeros(F64Digits - 1)]

\* u64::MAX as f64: 2^64 - 1 rounds to 2^64
U64MaxAsF64 == F64TwoPow(U64Bits)

\* bits + 1 for any bit string
BitsPlusOne(bits) ==
  IF \A i \in 1..Len(bits) : bits[i] = 1 THEN <<1>> \o Zeros(Len(bits))
  ELSE IncBits(bits)

\* f64::round of a finite x >= 0 (halves go away from zero), as the binary
\* digits of the integer, most significant first
F64Round(x) ==
  IF x.cls = "zero" THEN <<>>
  ELSE IF x.exp < -1 THEN <<>>
  ELSE IF x.exp = -1 THEN <<1>>
  ELSE IF x.exp >= F64Digits - 1 THEN x.man \o Zeros(x.exp - (F64Digits - 1))
  ELSE IF x.man[x.exp + 2] = 1 THEN BitsPlusOne(SubSeq(x.man, 1, x.exp + 1))
  ELSE SubSeq(x.man, 1, x.exp + 1)

\* `as u64` of an integer-valued f64 >= 0: the cast saturates at u64::MAX.
\* A u64 is kept as its binary digits, most significant first.
F64AsU64(bits) == IF Len(bits) > U64Bits THEN [i \in 1..U64Bits |-> 1] ELSE bits

AmountValidationError(message) ==
  [ok |-> FALSE, variant |-> "AmountValidation", message |-> message]

human_to_token_amount(human_amount, decimals) ==
  IF human_amount.cls = "neg"
  THEN AmountValidationError("Amount cannot be negative")
  ELSE IF human_amount.cls \in {"nan", "inf"}
  THEN AmountValidationError("Amount must be a valid number")
  ELSE LET multiplier == WrappingPow10(decimals)
           token_amount == F64Mul(human_amount, F64FromU64(multiplier))
       IN IF F64Gt(token_amount, U64MaxAsF64)
          THEN AmountValidationError("Amount too large, would overflow")
          ELSE [ok |-> TRUE, value |-> F64AsU64(F64Round(token_amount))]

token_to_human_amount(token_amount, decimals) ==
  F64Div(F64FromU64(token_amount), F64FromU64(WrappingPow10(decimals)))

format_amount(amount, decimals) ==
  FormatFixed(token_to_human_amount(amount, decimals), decimals)

\* str::trim_end_matches(c): the text without the c's it ends with
RECURSIVE TrimEndMatches(_, _)
TrimEndMatches(s, c) ==
  IF s # "" /\ SubSeq(s, Len(s), Len(s)) = c THEN TrimEndMatches(Front(s), c) ELSE s

format_amount_with_symbol(amount, decimals, symbol) ==
  LET formatted == FormatFixed(token_to_human_amount(amount, decimals), decimals)
      trimmed == TrimEndMatches(TrimEndMatches(formatted, "0"), ".")
  IN trimmed \o " " \o symbol

requires_confirmation(amount_usd, threshold) == F64Ge(amount_usd, threshold)

\* format!("{:.n$}", s) for a string s: at most n characters of s
Truncate(s, n) == IF Len(s) <= n THEN s ELSE SubSeq(s, 1, n)

\* 89.0 in the place of 90.0
F64_89 == F64FromU64(89)

F64_90 == F64FromU64(90)
\* 98.0 in the place of 99.0
F64_98 == F64FromU64(98)

F64_99 == F64FromU64(99)

\* 10.0 in the place of 100.0
F64_100_as_10 == F64FromU64(10)

F64_100 == F64FromU64(100)

F64_10 == F64FromU64(10)

\* line 79
Percentage(amount, balance) ==
  F64Mul(F64Div(F64FromU64(amount), F64FromU64(balance)), F64_100)

\* the branch of line 81 is taken
SendsEntire(amount, balance) == balance > 0 /\ F64Gt(Percentage(amount, balance), F64_99)

\* the test of line 86 as an `if` of its own
SendsMost_without_else(amount, balance) ==
  balance > 0 /\ F64Gt(Percentage(amount, balance), F64_90)

\* the branch of line 86 is taken: the one that evaluates balance - amount
SendsMost(amount, balance) ==
  balance > 0 /\ ~SendsEntire(amount, balance)
    /\ F64Gt(Percentage(amount, balance), F64_90)

validate_amount(amount, decimals, balance) ==
  LET percentage == Percentage(amount, balance)
      entire == SendsEntire(amount, balance)
      most == SendsMost(amount, balance)
      w1 == IF entire
            THEN <<"Sending entire balance. No funds will remain for fees.">>
            ELSE IF most
            THEN <<"Sending " \o FormatFixed(percentage, 1) \o "% of balance. Only "
                     \o Truncate(format_amount(balance - amount, decimals), 6)
                     \o " will remain.">>
            ELSE <<>>
      w2 == IF amount = 0 THEN <<"Amount is zero.">> ELSE <<>>
      w3 == IF amount > balance
            THEN <<"Amount (" \o format_amount(amount, decimals)
                     \o ") exceeds balance (" \o format_amount(balance, decimals) \o ").">>
            ELSE <<>>
  IN [is_valid |-> amount <= balance /\ amount > 0,
      warnings |-> w1 \o w2 \o w3,
      requires_confirmation |-> entire \/ most,
      human_readable |-> format_amount(amount, decimals),
      amount |-> amount]

IsDigit(c) == c \in {"0", "1", "2", "3", "4", "5", "6", "7", "8", "9"}

\* the number a string of decimal digits writes
RECURSIVE DigitsToInt(_)
DigitsToInt(s) ==
  IF s = "" THEN 0 ELSE 10 * DigitsToInt(Front(s)) + DigitValue(SubSeq(s, Len(s), Len(s)))

\* str::parse::<f64> for texts made of digits and dots (digits with at most
\* one dot parse, to the nearest f64; anything else with a dot or another
\* character in the texts of the model does not)
ParseF64(s) ==
  LET dots == {i \in 1..Len(s) : SubSeq(s, i, i) = "."}
      digits == {i \in 1..Len(s) : IsDigit(SubSeq(s, i, i))}
      dot == CHOOSE i \in dots : TRUE
  IN IF digits = {} \/ Cardinality(dots) > 1 \/ Cardinality(digits) + Cardinality(dots) # Len(s)
     THEN [ok |-> FALSE]
     ELSE IF dots = {} THEN [ok |-> TRUE, value |-> F64FromU64(DigitsToInt(s))]
     ELSE [ok |-> TRUE,
           value |-> F64Div(F64FromU64(DigitsToInt(SubSeq(s, 1, dot - 1)
                                                     \o SubSeq(s, dot + 1, Len(s)))),
                            F64FromU64(Pow10(Len(s) - dot)))]

\* x == x.floor() for a finite x > 0
F64IsInteger(x) ==
  x.exp >= 0 /\ ~AnyOne(SubSeq(x.man, x.exp + 2, F64Digits))

\* the integer a finite integer-valued x > 0 is
F64ToInt(x) == BitsToInt(F64Round(x))

MaxFractionDigits == 3

\* `{}` of a finite x > 0: the shortest decimal text that parses back to x
F64Display(x) ==
  IF F64IsInteger(x) THEN ToString(F64ToInt(x))
  ELSE FormatFixed(x, CHOOSE n \in 1..MaxFractionDigits :
                        /\ ParseF64(FormatFixed(x, n)).value = x
                        /\ \A m \in 1..(n - 1) : ParseF64(FormatFixed(x, m)).value # x)

F64_1000 == F64FromU64(1000)

\* 0.001 and 0.1
F64_0_001 == F64Div(F64FromU64(1), F64FromU64(1000))
F64_0_1 == F64Div(F64FromU64(1), F64FromU64(10))

\* floor(log10(parsed)) without the subtraction
ExtraZeros_no_sub(parsed) == Len(ToString(F64ToInt(parsed))) - 1

\* (parsed.log10().floor() as u32).saturating_sub(1) for an integer-valued
\* parsed >= 100: the floor of log10 is the number of digits less one
ExtraZeros(parsed) == Len(ToString(F64ToInt(parsed))) - 2

detect_magnitude_error(input_string, actual_amount, decimals) ==
  LET p == ParseF64(Trim(input_string))
      parsed == p.value
      european_interpretation == F64Div(parsed, F64_1000)
      ruleA == /\ F64Ge(parsed, F64_1000)
               /\ F64Ge(european_interpretation, F64_0_001)
               /\ F64Ge(F64_100, european_interpretation)
      round == F64Ge(parsed, F64_100) /\ F64IsInteger(parsed)
      zeros == ExtraZeros(parsed)
      possible_intended == F64Div(parsed, F64FromU64(Pow10(zeros)))
      ruleB == /\ round
               /\ zeros >= 2
               /\ F64Ge(possible_intended, F64_0_1)
               /\ F64Ge(F64_10, possible_intended)
  IN IF ~p.ok
     THEN [likely_error |-> FALSE, intended_amount |-> F64Zero,
           actual_amount |-> actual_amount, explanation |-> "Could not parse input"]
     ELSE IF ruleA
     THEN [likely_error |-> TRUE, intended_amount |-> european_interpretation,
           actual_amount |-> actual_amount,
           explanation |-> "Did you mean " \o FormatFixed(european_interpretation, 3)
                             \o " instead of " \o F64Display(parsed)
                             \o "? (European decimal notation)"]
     ELSE IF ruleB
     THEN [likely_error |-> TRUE, intended_amount |-> possible_intended,
           actual_amount |-> actual_amount,
           explanation |-> "Large round number detected. Did you mean "
                             \o FormatFixed(possible_intended, 1)
                             \o " instead of " \o F64Display(parsed) \o "?"]
     ELSE [likely_error |-> FALSE, intended_amount |-> parsed,
           actual_amount |-> actual_amount, explanation |-> ""]

(***************************************************************************)
(* safety/validator.rs                                                     *)
(***************************************************************************)
RiskLevels == <<"Low", "Medium", "High", "Critical">>

\* derive(PartialOrd, Ord): the position of the variant
RiskOrd(level) == CHOOSE i \in 1..Len(RiskLevels) : RiskLevels[i] = level

RiskLevel_requires_confirmation(level) == level \in {"High", "Critical"}

SafetyReport_approved(from, to, amount_display) ==
  [approved |-> TRUE,
   risk_level |-> "Low",
   warnings |-> <<>>,
   blockers |-> <<>>,
   from_display |-> format_address_short(from),
   to_display |-> format_address_short(to),
   amount_display |-> amount_display,
   requires_confirmation |-> FALSE]

\* add_warning that takes the level of the last warning
add_warning_last_level(report, warning, level) ==
  [report EXCEPT !.warnings = Append(@, warning),
                 !.risk_level = level,
                 !.requires_confirmation =
                    IF RiskLevel_requires_confirmation(level) THEN TRUE ELSE @]

add_warning(report, warning, level) ==
  LET risk == IF RiskOrd(level) > RiskOrd(report.risk_level)
              THEN level ELSE report.risk_level
  IN [report EXCEPT !.warnings = Append(@, warning),
                    !.risk_level = risk,
                    !.requires_confirmation =
                       IF RiskLevel_requires_confirmation(risk) THEN TRUE ELSE @]

\* add_blocker that leaves the report approved
add_blocker_keeps_approved(report, blocker) ==
  [report EXCEPT !.blockers = Append(@, blocker),
                 !.risk_level = "Critical"]

add_blocker(report, blocker) ==
  [report EXCEPT !.blockers = Append(@, blocker),
                 !.approved = FALSE,
                 !.risk_level = "Critical"]

\* the severity validate_offline gives to an amount warning
WarningLevel(warning) ==
  IF Contains(warning, "entire balance") THEN "High"
  ELSE IF Contains(warning, "%") THEN "Medium"
  ELSE "Low"

\* the test of lines 328 and 335 without its "zero" half
IsBlockingWarning_exceeds_only(warning) == Contains(warning, "exceeds balance")

IsBlockingWarning(warning) ==
  Contains(warning, "exceeds balance") \/ Contains(warning, "zero")

None == [cls |-> "none"]

\* SafetyProtocol::new
SafetyProtocol_new ==
  [strict_mode |-> FALSE,
   large_amount_threshold_usd |-> F64FromU64(1000),
   token_price_usd |-> None]

\* format!("Large transfer: ~${:.2} USD exceeds ${:.0} threshold", ..)
LargeTransferWarning(usd_value, threshold) ==
  "Large transfer: ~$" \o FormatFixed(usd_value, 2) \o " USD exceeds $"
    \o FormatFixed(threshold, 0) \o " threshold"

\* validate_offline, one check at a time -----------------------------------

\* lines 310-312
CheckSender(report, from) ==
  LET v == verify_address(PubkeyToString(from))
  IN IF v.ok THEN report
     ELSE add_blocker(report, "Invalid sender address: " \o DisplayInvalidAddress(v))

\* lines 314-316
CheckRecipient(report, to) ==
  LET v == verify_address(PubkeyToString(to))
  IN IF v.ok THEN report
     ELSE add_blocker(report, "Invalid recipient address: " \o DisplayInvalidAddress(v))

\* the self-transfer check at level Low
CheckSelfTransfer_low(report, from, to) ==
  IF from = to THEN add_warning(report, "Sending to yourself", "Low") ELSE report

\* lines 319-321
CheckSelfTransfer(report, from, to) ==
  IF from = to THEN add_warning(report, "Sending to yourself", "Medium") ELSE report

\* one iteration of the loop of lines 327-331
BlockerStep(report, warning) ==
  IF IsBlockingWarning(warning) THEN add_blocker(report, warning) ELSE report

\* the loop body of lines 334-345 skipped once the report is blocked
WarningStep_short_circuit(report, warning) ==
  IF report.approved /\ ~IsBlockingWarning(warning)
  THEN add_warning(report, warning, WarningLevel(warning))
  ELSE report

\* one iteration of the loop of lines 334-345
WarningStep(report, warning) ==
  IF ~IsBlockingWarning(warning)
  THEN add_warning(report, warning, WarningLevel(warning))
  ELSE report

\* usd_value of line 350
UsdValue(protocol, amount, decimals) ==
  F64Mul(token_to_human_amount(amount, decimals), protocol.token_price_usd)

\* lines 348-361
CheckLargeAmount(protocol, report, amount, decimals) ==
  IF protocol.token_price_usd # None
     /\ requires_confirmation(UsdValue(protocol, amount, decimals),
                              protocol.large_amount_threshold_usd)
  THEN add_warning(report,
         LargeTransferWarning(UsdValue(protocol, amount, decimals),
                              protocol.large_amount_threshold_usd),
         "High")
  ELSE report

\* line 364
StrictApplies(protocol, report) == protocol.strict_mode /\ report.warnings # <<>>

\* the loop body of lines 366-368 on an approved report only
StrictStep_first_only(report, warning) ==
  IF report.approved THEN add_blocker(report, "STRICT: " \o warning) ELSE report

\* one iteration of the loop of lines 366-368
StrictStep(report, warning) == add_blocker(report, "STRICT: " \o warning)

\* validate_offline as a function of its arguments --------------------------
RECURSIVE BlockerLoop(_, _)
BlockerLoop(report, warnings) ==
  IF warnings = <<>> THEN report
  ELSE BlockerLoop(BlockerStep(report, Head(warnings)), Tail(warnings))

RECURSIVE WarningLoop(_, _)
WarningLoop(report, warnings) ==
  IF warnings = <<>> THEN report
  ELSE WarningLoop(WarningStep(report, Head(warnings)), Tail(warnings))

RECURSIVE StrictLoop(_, _)
StrictLoop(report, warnings) ==
  IF warnings = <<>> THEN report
  ELSE StrictLoop(StrictStep(report, Head(warnings)), Tail(warnings))

\* the report of a call that does not panic
validate_offline(protocol, from, to, amount, decimals, balance) ==
  LET r0 == SafetyReport_approved(from, to, format_amount(amount, decimals))
      r1 == CheckSelfTransfer(CheckRecipient(CheckSender(r0, from), to), from, to)
      validation == validate_amount(amount, decimals, balance)
      r2 == IF validation.is_valid THEN r1 ELSE BlockerLoop(r1, validation.warnings)
      r3 == WarningLoop(r2, validation.warnings)
      r4 == CheckLargeAmount(protocol, r3, amount, decimals)
  IN IF StrictApplies(protocol, r4)
     THEN StrictLoop([r4 EXCEPT !.warnings = <<>>], r4.warnings)
     ELSE r4

(***************************************************************************)
(* Inputs of the model.                                                    *)
(***************************************************************************)
Amounts == 0..MaxAmount
Balances == {BalanceUnit * k : k \in 0..MaxBalanceUnits}
Decimals == (0..MaxDecimals) \cup {U64Bits}
Prices == {F64FromU64(100)}
Thresholds == {F64FromU64(500)}
RpcErrors == {"connection refused"}
SimulationErrors == {"AccountNotFound"}

(***************************************************************************)
(* State.                                                                  *)
(*   protocol    the SafetyProtocol the calls share                        *)
(*   pc          where the running call stands                             *)
(*   call        the arguments of the running call                         *)
(*   balance     the local `balance` (an argument, or fetched over RPC)    *)
(*   report      the local `report`                                        *)
(*   validation  the local `validation`                                    *)
(*   idx         position of the running for loop in its vector            *)
(*   drained     the local `warnings` of the strict-mode block             *)
(*   error       the Err a call returned                                   *)
(*   added       history: the level of every add_warning of the call, and  *)
(*               "Critical" for every add_blocker, in order                *)
(*   result      what a call of an associated function of AmountValidator  *)
(*               or AddressVerifier returned                               *)
(*   other       the locals of a second call on the same SafetyProtocol,   *)
(*               while that call is not the one taking steps               *)
(*   tx          BatchExecutor::execute_transaction: the executor's config,*)
(*               the locals `attempt` and `last_error`, and the history of *)
(*               the send_and_confirm_transaction calls with their results *)
(***************************************************************************)
VARIABLES protocol, pc, call, balance, report, validation, idx, drained, error, added,
          result, other, tx

vars == <<protocol, pc, call, balance, report, validation, idx, drained, error, added,
          result, other, tx>>

\* the locals of a call that has not started
IdleFrame ==
  [pc |-> "idle", call |-> None, balance |-> None, report |-> None,
   validation |-> None, idx |-> 0, drained |-> <<>>, error |-> None, added |-> <<>>]

Init ==
  /\ protocol = SafetyProtocol_new
  /\ pc = "idle"
  /\ call = None
  /\ balance = None
  /\ report = None
  /\ validation = None
  /\ idx = 0
  /\ drained = <<>>
  /\ error = None
  /\ added = <<>>
  /\ result = None
  /\ other = IdleFrame
  /\ tx = None

Idle == UNCHANGED <<tx, other, result, call, balance, report, validation, idx, drained, error, added>>

\* SafetyProtocol::strict
Strict ==
  /\ pc = "idle"
  /\ protocol' = [protocol EXCEPT !.strict_mode = TRUE]
  /\ UNCHANGED pc /\ Idle

\* SafetyProtocol::large_amount_threshold
LargeAmountThreshold(threshold) ==
  /\ pc = "idle"
  /\ protocol' = [protocol EXCEPT !.large_amount_threshold_usd = threshold]
  /\ UNCHANGED pc /\ Idle

\* SafetyProtocol::token_price
TokenPrice(price) ==
  /\ pc = "idle"
  /\ protocol' = [protocol EXCEPT !.token_price_usd = price]
  /\ UNCHANGED pc /\ Idle

\* what a check adds to the history
Added(before, after) ==
  IF Len(after.blockers) > Len(before.blockers) THEN <<"Critical">>
  ELSE <<>>

\* entry of validate_offline (kind "offline", lines 306-307) and of
\* validate_transfer (kind "online", lines 200-201); overflow_checks is the
\* build's setting for arithmetic overflow
Call(kind, from, to, amount, decimals, bal, overflow_checks) ==
  /\ pc = "idle"
  /\ call' = [kind |-> kind, from |-> from, to |-> to,
              amount |-> amount, decimals |-> decimals]
  /\ balance' = IF kind = "offline" THEN bal ELSE None
  /\ IF Pow10Overflows(decimals) /\ overflow_checks
     THEN pc' = "panicked" /\ UNCHANGED report
     ELSE /\ pc' = "verify_from"
          /\ report' = SafetyReport_approved(from, to, format_amount(amount, decimals))
  /\ UNCHANGED <<tx, other, result, protocol, validation, idx, drained, error, added>>

VerifySender ==
  /\ pc = "verify_from"
  /\ report' = CheckSender(report, call.from)
  /\ added' = added \o Added(report, report')
  /\ pc' = "verify_to"
  /\ UNCHANGED <<tx, other, result, protocol, call, balance, validation, idx, drained, error>>

VerifyRecipient ==
  /\ pc = "verify_to"
  /\ report' = CheckRecipient(report, call.to)
  /\ added' = added \o Added(report, report')
  /\ pc' = "self_transfer"
  /\ UNCHANGED <<tx, other, result, protocol, call, balance, validation, idx, drained, error>>

SelfTransfer ==
  /\ pc = "self_transfer"
  /\ report' = CheckSelfTransfer(report, call.from, call.to)
  /\ added' = IF call.from = call.to THEN Append(added, "Medium") ELSE added
  /\ pc' = IF call.kind = "online" THEN "fetch_balance" ELSE "validate_amount"
  /\ UNCHANGED <<tx, other, result, protocol, call, balance, validation, idx, drained, error>>

\* the fetched balance is kept but the amount is not validated against it
FetchBalanceOk_skips_validation(bal) ==
  /\ pc = "fetch_balance"
  /\ balance' = bal
  /\ pc' = "large_amount"
  /\ UNCHANGED <<tx, other, result, protocol, call, report, validation, idx, drained, error, added>>

\* validate_transfer, lines 221-223: the balance comes from the RPC client
FetchBalanceOk(bal) ==
  /\ pc = "fetch_balance"
  /\ balance' = bal
  /\ pc' = "validate_amount"
  /\ UNCHANGED <<tx, other, result, protocol, call, report, validation, idx, drained, error, added>>

FetchBalanceErr(e) ==
  /\ pc = "fetch_balance"
  /\ error' = [variant |-> "NetworkError", message |-> "Failed to fetch balance: " \o e]
  /\ pc' = "error"
  /\ UNCHANGED <<tx, other, result, protocol, call, balance, report, validation, idx, drained, added>>

\* line 324, and the test of line 326
ValidateAmount ==
  /\ pc = "validate_amount"
  /\ validation' = validate_amount(call.amount, call.decimals, balance)
  /\ idx' = 1
  /\ pc' = IF validation'.is_valid THEN "warning_loop" ELSE "blocker_loop"
  /\ UNCHANGED <<tx, other, result, protocol, call, balance, report, drained, error, added>>

\* lines 327-331
BlockerLoopStep ==
  /\ pc = "blocker_loop"
  /\ IF idx <= Len(validation.warnings)
     THEN /\ report' = BlockerStep(report, validation.warnings[idx])
          /\ added' = added \o Added(report, report')
          /\ idx' = idx + 1
          /\ UNCHANGED pc
     ELSE /\ pc' = "warning_loop"
          /\ idx' = 1
          /\ UNCHANGED <<report, added>>
  /\ UNCHANGED <<tx, other, result, protocol, call, balance, validation, drained, error>>

\* lines 334-345
WarningLoopStep ==
  /\ pc = "warning_loop"
  /\ IF idx <= Len(validation.warnings)
     THEN /\ report' = WarningStep(report, validation.warnings[idx])
          /\ added' = IF IsBlockingWarning(validation.warnings[idx]) THEN added
                      ELSE Append(added, WarningLevel(validation.warnings[idx]))
          /\ idx' = idx + 1
          /\ UNCHANGED pc
     ELSE /\ pc' = "large_amount"
          /\ idx' = 0
          /\ UNCHANGED <<report, added>>
  /\ UNCHANGED <<tx, other, result, protocol, call, balance, validation, drained, error>>

\* the check takes the price out of the policy (Option::take)
LargeAmount_takes_price ==
  /\ pc = "large_amount"
  /\ report' = CheckLargeAmount(protocol, report, call.amount, call.decimals)
  /\ added' = IF Len(report'.warnings) > Len(report.warnings)
              THEN Append(added, "High") ELSE added
  /\ protocol' = [protocol EXCEPT !.token_price_usd = None]
  /\ pc' = "strict_mode"
  /\ UNCHANGED <<tx, other, result, call, balance, validation, idx, drained, error>>

\* lines 348-361
LargeAmount ==
  /\ pc = "large_amount"
  /\ report' = CheckLargeAmount(protocol, report, call.amount, call.decimals)
  /\ added' = IF Len(report'.warnings) > Len(report.warnings)
              THEN Append(added, "High") ELSE added
  /\ pc' = "strict_mode"
  /\ UNCHANGED <<tx, other, result, protocol, call, balance, validation, idx, drained, error>>

\* lines 364-365: the warnings are drained out of the report
StrictMode ==
  /\ pc = "strict_mode"
  /\ IF StrictApplies(protocol, report)
     THEN /\ drained' = report.warnings
          /\ report' = [report EXCEPT !.warnings = <<>>]
          /\ idx' = 1
          /\ pc' = "strict_loop"
     ELSE /\ pc' = "done"
          /\ UNCHANGED <<report, drained, idx>>
  /\ UNCHANGED <<tx, other, result, protocol, call, balance, validation, error, added>>

\* lines 366-368, then the return of line 371
StrictLoopStep ==
  /\ pc = "strict_loop"
  /\ IF idx <= Len(drained)
     THEN /\ report' = StrictStep(report, drained[idx])
          /\ added' = Append(added, "Critical")
          /\ idx' = idx + 1
          /\ UNCHANGED pc
     ELSE /\ pc' = "done"
          /\ idx' = 0
          /\ UNCHANGED <<report, added>>
  /\ UNCHANGED <<tx, other, result, protocol, call, balance, validation, drained, error>>

Next ==
  \/ Strict
  \/ \E t \in Thresholds : LargeAmountThreshold(t)
  \/ \E p \in Prices : TokenPrice(p)
  \/ \E from \in Senders, to \in Pubkeys, amount \in Amounts, decimals \in Decimals :
       \E overflow_checks \in IF Pow10Overflows(decimals) THEN BOOLEAN ELSE {FALSE} :
          \/ \E bal \in Balances :
                Call("offline", from, to, amount, decimals, bal, overflow_checks)
          \/ Call("online", from, to, amount, decimals, None, overflow_checks)
  \/ VerifySender
  \/ VerifyRecipient
  \/ SelfTransfer
  \/ \E bal \in Balances : FetchBalanceOk(bal)
  \/ \E e \in RpcErrors : FetchBalanceErr(e)
  \/ ValidateAmount
  \/ BlockerLoopStep
  \/ WarningLoopStep
  \/ LargeAmount
  \/ StrictMode
  \/ StrictLoopStep

Spec == Init /\ [][Next]_vars

(***************************************************************************)
(* Two calls of validate_offline on one shared SafetyProtocol (&self).     *)
(* One of them takes steps; Switch hands the processor to the other, so    *)
(* that the steps of the two interleave in every order.  The builders      *)
(* consume the SafetyProtocol, which the borrow checker allows only while  *)
(* no call holds a reference to it.                                        *)
(***************************************************************************)
Frame ==
  [pc |-> pc, call |-> call, balance |-> balance, report |-> report,
   validation |-> validation, idx |-> idx, drained |-> drained, error |-> error,
   added |-> added]

Switch ==
  /\ other' = Frame
  /\ pc' = other.pc
  /\ call' = other.call
  /\ balance' = other.balance
  /\ report' = other.report
  /\ validation' = other.validation
  /\ idx' = other.idx
  /\ drained' = other.drained
  /\ error' = other.error
  /\ added' = other.added
  /\ UNCHANGED <<tx, protocol, result>>

NoCallRunning == pc = "idle" /\ other.pc = "idle"

SharedAmounts == {0, BalanceUnit - 1, BalanceUnit + 1}

SharedNext ==
  \/ NoCallRunning /\ Strict
  \/ \E p \in Prices : NoCallRunning /\ TokenPrice(p)
  \/ \E from \in Senders, to \in Pubkeys, amount \in SharedAmounts :
       Call("offline", from, to, amount, 0, BalanceUnit, FALSE)
  \/ VerifySender
  \/ VerifyRecipient
  \/ SelfTransfer
  \/ ValidateAmount
  \/ BlockerLoopStep
  \/ WarningLoopStep
  \/ LargeAmount
  \/ StrictMode
  \/ StrictLoopStep
  \/ Switch

SharedSpec == Init /\ [][SharedNext]_vars

(***************************************************************************)
(* Properties.                                                             *)
(***************************************************************************)
\* the call has returned its report
Returned == pc = "done"

Entries == report.warnings \o report.blockers

InSeq(x, seq) == \E i \in 1..Len(seq) : seq[i] = x

Mentions(seq, text) == \E i \in 1..Len(seq) : Contains(seq[i], text)

NonStrict(p) == [p EXCEPT !.strict_mode = FALSE]

\* the report the same call returns under the policy p
ReportUnder(p) ==
  validate_offline(p, call.from, call.to, call.amount, call.decimals, balance)

RECURSIVE MaxLevel(_)
MaxLevel(levels) ==
  IF levels = <<>> THEN "Low"
  ELSE LET rest == MaxLevel(Tail(levels))
       IN IF RiskOrd(Head(levels)) > RiskOrd(rest) THEN Head(levels) ELSE rest

\* C1: every returned report has requires_confirmation exactly when its
\* risk_level is High or Critical.
C1_ConfirmationIffHighRisk ==
  Returned =>
    (report.requires_confirmation <=> RiskOrd(report.risk_level) >= RiskOrd("High"))

\* C2: in every state of a report, approved is true exactly when blockers
\* is empty.
C2_ApprovedIffNoBlockers ==
  report # None => (report.approved <=> report.blockers = <<>>)

C2_Witness ==
  /\ report # None
  /\ pc \in {"blocker_loop", "warning_loop", "strict_loop"}
  /\ report.blockers # <<>>
  /\ ~report.approved

\* C3: under strict mode, when the same call without strict mode yields a
\* warning, the returned report is not approved, is Critical, has no
\* warnings, and has the blocker "STRICT: " + w for each such warning w.
C3_StrictBlocksEveryWarning ==
  (Returned /\ protocol.strict_mode) =>
    LET plain == ReportUnder(NonStrict(protocol))
    IN plain.warnings # <<>> =>
         /\ ~report.approved
         /\ report.risk_level = "Critical"
         /\ report.warnings = <<>>
         /\ \A i \in 1..Len(plain.warnings) :
              InSeq("STRICT: " \o plain.warnings[i], report.blockers)

C3_Witness ==
  /\ Returned
  /\ protocol.strict_mode
  /\ Len(drained) >= 2
  /\ Len(report.blockers) > Len(drained)

C5_RiskIsMaxAdded ==
  Returned => report.risk_level = MaxLevel(added)

C5_Witness ==
  /\ Returned
  /\ Len(added) >= 3
  /\ added[1] = "Medium"
  /\ InSeq("Critical", added)
  /\ added[Len(added)] = "High"

\* C6: every check is evaluated whatever the earlier checks found: a
\* returned report has an entry for each condition the call triggers.
C6_EveryCheckReported ==
  Returned =>
    /\ call.from = call.to => Mentions(Entries, "Sending to yourself")
    /\ call.amount = 0 => Mentions(Entries, "Amount is zero.")
    /\ call.amount > balance => Mentions(Entries, "exceeds balance")
    /\ (balance > 0 /\ 100 * call.amount > 99 * balance) =>
         Mentions(Entries, "Sending entire balance.")
    /\ (balance > 0 /\ 100 * call.amount <= 99 * balance
                    /\ 10 * call.amount > 9 * balance) =>
         Mentions(Entries, "% of balance.")
    /\ (protocol.token_price_usd # None /\ ~Pow10Overflows(call.decimals)
          /\ F64Ge(F64Mul(F64Div(F64FromU64(call.amount),
                                 F64FromU64(Pow10(call.decimals))),
                          protocol.token_price_usd),
                   protocol.large_amount_threshold_usd)) =>
         Mentions(Entries, "Large transfer")

C6_Witness ==
  /\ Returned
  /\ call.from = call.to
  /\ call.amount > balance
  /\ Mentions(Entries, "Sending to yourself")
  /\ Mentions(Entries, "exceeds balance")
  /\ Mentions(Entries, "Sending entire balance.")
  /\ Mentions(Entries, "Large transfer")

\* C7: validate_offline never panics, whatever its arguments.
C7_NeverPanics == pc # "panicked"

\* C8: with a non-strict policy without a price, distinct sender and
\* recipient and 0 < amount <= 90% of balance, the returned report is
\* approved, Low, has no warnings, no blockers and needs no confirmation.
C8_PlainTransferIsClean ==
  (/\ Returned
   /\ ~protocol.strict_mode
   /\ protocol.token_price_usd = None
   /\ call.from # call.to
   /\ call.amount > 0
   /\ 10 * call.amount <= 9 * balance) =>
    /\ report.approved
    /\ report.risk_level = "Low"
    /\ report.warnings = <<>>
    /\ report.blockers = <<>>
    /\ ~report.requires_confirmation

C8_Witness ==
  /\ Returned
  /\ ~protocol.strict_mode
  /\ protocol.token_price_usd = None
  /\ call.from # call.to
  /\ call.amount > 0
  /\ 10 * call.amount = 9 * balance
  /\ report.approved

\* C9: with a non-strict policy, a self-transfer with 0 < amount <= balance
\* is approved with a warning mentioning "yourself" and a risk of at least
\* Medium; a transfer to another address never gets that warning.
C9_SelfTransferWarned ==
  Returned =>
    /\ (~protocol.strict_mode /\ call.from = call.to
          /\ call.amount > 0 /\ call.amount <= balance) =>
         /\ report.approved
         /\ Mentions(report.warnings, "yourself")
         /\ RiskOrd(report.risk_level) >= RiskOrd("Medium")
    /\ call.from # call.to => ~Mentions(Entries, "yourself")

C9_Witness ==
  /\ Returned
  /\ ~protocol.strict_mode
  /\ call.from = call.to
  /\ call.amount > 0
  /\ call.amount <= balance
  /\ report.risk_level = "Medium"

\* (amount / 10^decimals) * price >= threshold, in f64 arithmetic with the
\* true power of ten; for decimals beyond the powers of ten of the model the
\* quotient is below 1 / price
UsdAtLeastThreshold(p, amount, decimals) ==
  /\ p.token_price_usd # None
  /\ ~Pow10Overflows(decimals)
  /\ F64Ge(F64Mul(F64Div(F64FromU64(amount), F64FromU64(Pow10(decimals))),
                  p.token_price_usd),
           p.large_amount_threshold_usd)

\* C10: the "Large transfer" warning is added exactly when a price is
\* configured and (amount / 10^decimals) * price >= threshold; a non-strict
\* report that has it needs confirmation and is at least High.
C10_LargeTransferIffAtThreshold ==
  /\ pc = "strict_mode" =>
       (Mentions(report.warnings, "Large transfer")
          <=> UsdAtLeastThreshold(protocol, call.amount, call.decimals))
  /\ (Returned /\ ~protocol.strict_mode
        /\ UsdAtLeastThreshold(protocol, call.amount, call.decimals)) =>
       /\ report.requires_confirmation
       /\ RiskOrd(report.risk_level) >= RiskOrd("High")

(***************************************************************************)
(* The associated functions of AmountValidator and AddressVerifier, called *)
(* directly.  They keep no state, so a behaviour is one call: it records   *)
(* its arguments in `call` and what it returned in `result`.               *)
(***************************************************************************)
MaxLibAmount == 10

LAMPORTS_PER_SOL == 1000000000

\* the decimals of SOL
SolDecimals == 9

LibBalances == (0..MaxLibAmount) \cup {100, 200, LAMPORTS_PER_SOL}

LibAmounts ==
  (0..MaxLibAmount)
    \cup {50, 90, 91, 99, 100, 180, 181, 198, 199, 200}
    \cup {LAMPORTS_PER_SOL \div 2, 9 * (LAMPORTS_PER_SOL \div 10),
          9 * (LAMPORTS_PER_SOL \div 10) + 1, 99 * (LAMPORTS_PER_SOL \div 100),
          99 * (LAMPORTS_PER_SOL \div 100) + 1, LAMPORTS_PER_SOL,
          LAMPORTS_PER_SOL + 1, 2 * LAMPORTS_PER_SOL}

LibDecimals == {0, SolDecimals, U64Bits}

\* the state a direct call starts from and leaves alone
LibIdle ==
  UNCHANGED <<tx, other, protocol, balance, report, validation, idx, drained, error, added>>

CanCall == pc = "idle"

\* AmountValidator::validate_amount; every path reaches format_amount
\* (line 110), whose 10u64.pow(decimals) panics on overflow when the build
\* checks arithmetic overflow.  The u64 subtraction of line 90 comes first on
\* its path: below zero it panics or wraps, and the call has "underflowed"
ValidateAmountCall(amount, decimals, bal, overflow_checks) ==
  /\ CanCall
  /\ call' = [fn |-> "validate_amount", amount |-> amount, decimals |-> decimals,
              balance |-> bal]
  /\ IF bal < amount /\ SendsMost(amount, bal)
     THEN pc' = "underflowed" /\ result' = None
     ELSE IF Pow10Overflows(decimals) /\ overflow_checks
     THEN pc' = "panicked" /\ result' = None
     ELSE pc' = "returned" /\ result' = validate_amount(amount, decimals, bal)
  /\ LibIdle

\* whitespace a pasted address comes wrapped in
MaxPad == 2

Pads == {Repeat(" ", n) : n \in 0..MaxPad} \cup {"\t", "\r\n"}

\* addresses without surrounding whitespace: the two keys, and texts that are
\* too short, too long, or carry characters outside base58
AddressTexts ==
  {"", "0", "0OIl", "7xKXtg2CW87d97",
   TEST_ADDR_1, TEST_ADDR_2,
   SubSeq(TEST_ADDR_1, 1, 31),
   SubSeq(TEST_ADDR_1, 1, 31) \o "l",
   TEST_ADDR_1 \o "U",
   TEST_ADDR_1 \o "0",
   "0" \o Tail(TEST_ADDR_1),
   "O" \o SubSeq(TEST_ADDR_1, 2, 41) \o "Ill",
   SubSeq(TEST_ADDR_1, 1, 20) \o " " \o SubSeq(TEST_ADDR_1, 22, 44)}

Addresses == {a \o t \o b : a \in Pads, t \in AddressTexts, b \in Pads}

\* AddressVerifier::verify_address
VerifyAddressCall(address) ==
  /\ CanCall
  /\ call' = [fn |-> "verify_address", address |-> address]
  /\ result' = verify_address(address)
  /\ pc' = "returned"
  /\ LibIdle

\* texts to compare: a key, the key with one, two and three characters
\* replaced, with its first or last character replaced by a blank, without its
\* last character, another key, and nothing
CompareTexts ==
  {TEST_ADDR_1,
   Front(TEST_ADDR_1) \o "V",
   "8" \o Tail(TEST_ADDR_1),
   "8" \o SubSeq(TEST_ADDR_1, 2, 43) \o "V",
   "8" \o SubSeq(TEST_ADDR_1, 2, 20) \o "x" \o SubSeq(TEST_ADDR_1, 22, 43) \o "V",
   " " \o Tail(TEST_ADDR_1),
   Front(TEST_ADDR_1) \o " ",
   Front(TEST_ADDR_1),
   TEST_ADDR_2,
   ""}

ComparePads == {"", " "}

\* AddressVerifier::compare_addresses
CompareAddressesCall(addr1, addr2) ==
  /\ CanCall
  /\ call' = [fn |-> "compare_addresses", addr1 |-> addr1, addr2 |-> addr2]
  /\ result' = compare_addresses(addr1, addr2)
  /\ pc' = "returned"
  /\ LibIdle

\* n / m as an f64
Ratio(n, m) == F64Div(F64FromU64(n), F64FromU64(m))

\* the largest f64 below 2^64
BelowU64Max == [cls |-> "num", exp |-> U64Bits - 1, man |-> [i \in 1..F64Digits |-> 1]]

HumanAmounts ==
  {F64Zero, Ratio(1, 1), Ratio(3, 2), Ratio(1, 1000), Ratio(1, 2), Ratio(1, 4),
   Ratio(5, 2), Ratio(100, 1), F64TwoPow(U64Bits - 1), BelowU64Max,
   F64TwoPow(U64Bits), F64TwoPow(U64Bits + 1), F64NaN, F64Inf, F64Negative}

\* AmountValidator::human_to_token_amount; 10u64.pow(decimals) (line 148)
\* panics on overflow when the build checks arithmetic overflow
HumanToTokenAmountCall(human_amount, decimals, overflow_checks) ==
  /\ CanCall
  /\ call' = [fn |-> "human_to_token_amount", human_amount |-> human_amount,
              decimals |-> decimals]
  /\ IF /\ human_amount.cls \in {"zero", "num"}
        /\ Pow10Overflows(decimals)
        /\ overflow_checks
     THEN pc' = "panicked" /\ result' = None
     ELSE pc' = "returned" /\ result' = human_to_token_amount(human_amount, decimals)
  /\ LibIdle

\* what a user types for an amount
MagnitudeInputs ==
  {"1000", "10000", "1.5", "0.5", "1500", "99999", "100000", "100001",
   "1000000", "2000000", "10000000", "999", "100", "1000.5", "99999.5",
   "100000.5", "1.000", "0.001", " 1000 ", "abc", "", "1,000", "1.0.0"}

ActualAmounts == {Ratio(3, 2), F64FromU64(1000)}

\* AmountValidator::detect_magnitude_error
DetectMagnitudeErrorCall(input_string, actual_amount, decimals) ==
  /\ CanCall
  /\ call' = [fn |-> "detect_magnitude_error", input_string |-> input_string,
              actual_amount |-> actual_amount, decimals |-> decimals]
  /\ result' = detect_magnitude_error(input_string, actual_amount, decimals)
  /\ pc' = "returned"
  /\ LibIdle

UsdcDecimals == 6

Symbols == {"SOL", "USDC"}

\* the amounts of test_human_readable_formatting, next to those of the other
\* calls
FormattedAmounts ==
  LibAmounts \cup {3 * (LAMPORTS_PER_SOL \div 2), LAMPORTS_PER_SOL \div 1000,
                   LAMPORTS_PER_SOL \div 10}

\* AmountValidator::format_amount_with_symbol; 10u64.pow(decimals) (line 173)
\* panics on overflow when the build checks arithmetic overflow
FormatAmountWithSymbolCall(amount, decimals, symbol, overflow_checks) ==
  /\ CanCall
  /\ call' = [fn |-> "format_amount_with_symbol", amount |-> amount,
              decimals |-> decimals, symbol |-> symbol]
  /\ IF Pow10Overflows(decimals) /\ overflow_checks
     THEN pc' = "panicked" /\ result' = None
     ELSE pc' = "returned" /\ result' = format_amount_with_symbol(amount, decimals, symbol)
  /\ LibIdle

LibNext ==
  \/ \E amount \in LibAmounts, decimals \in LibDecimals, bal \in LibBalances :
       \E overflow_checks \in IF Pow10Overflows(decimals) THEN BOOLEAN ELSE {FALSE} :
          ValidateAmountCall(amount, decimals, bal, overflow_checks)
  \/ \E address \in Addresses : VerifyAddressCall(address)
  \/ \E human_amount \in HumanAmounts, decimals \in LibDecimals :
       \E overflow_checks \in IF Pow10Overflows(decimals) THEN BOOLEAN ELSE {FALSE} :
          HumanToTokenAmountCall(human_amount, decimals, overflow_checks)
  \/ \E input_string \in MagnitudeInputs, actual_amount \in ActualAmounts :
       DetectMagnitudeErrorCall(input_string, actual_amount, SolDecimals)
  \/ \E a \in ComparePads, t \in CompareTexts, b \in ComparePads, addr2 \in CompareTexts :
       CompareAddressesCall(a \o t \o b, addr2)

LibSpec == Init /\ [][LibNext]_vars

\* the calls of the display functions
FormatNext ==
  \E amount \in FormattedAmounts, decimals \in LibDecimals \cup {UsdcDecimals},
     symbol \in Symbols :
    \E overflow_checks \in IF Pow10Overflows(decimals) THEN BOOLEAN ELSE {FALSE} :
       FormatAmountWithSymbolCall(amount, decimals, symbol, overflow_checks)

FormatSpec == Init /\ [][FormatNext]_vars

(***************************************************************************)
(* transaction.rs: BatchExecutor::execute_transaction.  Every await on the *)
(* RPC client is a step of its own with the outcomes the client can give.  *)
(***************************************************************************)
MaxRetries == 3

U8Max == 255

\* TransactionConfig::max_retries: u8
Retries == (0..MaxRetries) \cup {U8Max}

TransactionConfigs ==
  [simulate_before_send : BOOLEAN, max_retries : Retries]

Signatures == {"sig1", "sig2"}

Some(value) == [cls |-> "some", value |-> value]

Ok(value) == [ok |-> TRUE, value |-> value]

Err(variant, message) == [ok |-> FALSE, variant |-> variant, message |-> message]

TxIdle ==
  UNCHANGED <<other, protocol, call, balance, report, validation, idx, drained, error, added>>

\* lines 250-271
ExecuteTransaction(config, no_signers) ==
  /\ CanCall
  /\ tx' = [config |-> config, attempt |-> 0, last_error |-> None, sent |-> <<>>]
  /\ IF no_signers
     THEN pc' = "returned" /\ result' = Err("SigningError", "No signers provided")
     ELSE pc' = "get_latest_blockhash" /\ result' = None
  /\ TxIdle

\* line 273
GetLatestBlockhashOk ==
  /\ pc = "get_latest_blockhash"
  /\ pc' = IF tx.config.simulate_before_send THEN "simulate" ELSE "send"
  /\ UNCHANGED <<tx, result>>
  /\ TxIdle

\* line 273: `?` turns the ClientError into ToolkitError::RpcError
GetLatestBlockhashErr(e) ==
  /\ pc = "get_latest_blockhash"
  /\ result' = Err("RpcError", e)
  /\ pc' = "returned"
  /\ UNCHANGED tx
  /\ TxIdle

\* lines 278-279, the simulation found no error
SimulateOk ==
  /\ pc = "simulate"
  /\ pc' = "send"
  /\ UNCHANGED <<tx, result>>
  /\ TxIdle

\* line 279: the simulation could not be run
SimulateErr(e) ==
  /\ pc = "simulate"
  /\ result' = Err("RpcError", e)
  /\ pc' = "returned"
  /\ UNCHANGED tx
  /\ TxIdle

\* lines 280-285: the simulated transaction fails
SimulationFailed(err) ==
  /\ pc = "simulate"
  /\ result' = Err("TransactionError", "Simulation failed: " \o err)
  /\ pc' = "returned"
  /\ UNCHANGED tx
  /\ TxIdle

\* the range 0..max_retries, without its upper end
InRange_exclusive(attempt, max_retries) == attempt < max_retries

\* line 290: attempt is in 0..=max_retries
InRange(attempt, max_retries) == attempt <= max_retries

\* lines 291-292
SendOk(sig) ==
  /\ pc = "send"
  /\ InRange(tx.attempt, tx.config.max_retries)
  /\ tx' = [tx EXCEPT !.sent = Append(@, Ok(sig))]
  /\ result' = Ok(sig)
  /\ pc' = "returned"
  /\ TxIdle

\* lines 291, 293-298
SendErr(e) ==
  /\ pc = "send"
  /\ InRange(tx.attempt, tx.config.max_retries)
  /\ IF tx.attempt < tx.config.max_retries
     THEN /\ tx' = [tx EXCEPT !.sent = Append(@, Err("ClientError", e)),
                             !.last_error = Some(e)]
          /\ pc' = "sleep"
     ELSE /\ tx' = [tx EXCEPT !.sent = Append(@, Err("ClientError", e)),
                             !.last_error = Some(e),
                             !.attempt = @ + 1]
          /\ pc' = "send"
  /\ UNCHANGED result
  /\ TxIdle

\* line 296, and the next turn of the loop
Sleep ==
  /\ pc = "sleep"
  /\ tx' = [tx EXCEPT !.attempt = @ + 1]
  /\ pc' = "send"
  /\ UNCHANGED result
  /\ TxIdle

\* `{:?}` of last_error: Option<ClientError>
DebugOption(e) == IF e = None THEN "None" ELSE "Some(" \o e.value \o ")"

\* lines 302-306
FailedAfterRetries ==
  /\ pc = "send"
  /\ ~InRange(tx.attempt, tx.config.max_retries)
  /\ result' = Err("TransactionError",
                   "Failed after " \o ToString(tx.config.max_retries) \o " retries: "
                     \o DebugOption(tx.last_error))
  /\ pc' = "returned"
  /\ UNCHANGED tx
  /\ TxIdle

TxNext ==
  \/ \E config \in TransactionConfigs, no_signers \in BOOLEAN :
       ExecuteTransaction(config, no_signers)
  \/ GetLatestBlockhashOk
  \/ \E e \in RpcErrors : GetLatestBlockhashErr(e)
  \/ SimulateOk
  \/ \E e \in RpcErrors : SimulateErr(e)
  \/ \E err \in SimulationErrors : SimulationFailed(err)
  \/ \E sig \in Signatures : SendOk(sig)
  \/ \E e \in RpcErrors : SendErr(e)
  \/ Sleep
  \/ FailedAfterRetries

\* every await returns: the client answers or times out, and the sleep ends
TxSpec == Init /\ [][TxNext]_vars /\ WF_vars(TxNext)

\* the call of fn has ended, by a return or by a panic
Ended(fn) == pc \in {"returned", "panicked"} /\ call.fn = fn

\* the call of fn has returned
ReturnedFrom(fn) == pc = "returned" /\ call.fn = fn

\* C11: for every amount, decimals and balance, validate_amount returns
\* is_valid = true exactly when 0 < amount <= balance, and the amount field
\* of the result is the input amount.
C11_IsValidIffCoveredAndPositive ==
  Ended("validate_amount") =>
    /\ pc = "returned"
    /\ result.is_valid = (0 < call.amount /\ call.amount <= call.balance)
    /\ result.amount = call.amount

\* the same for the calls that return (decimals <= 19, or a build that wraps)
C11_OfReturnedCalls ==
  ReturnedFrom("validate_amount") =>
    /\ result.is_valid = (0 < call.amount /\ call.amount <= call.balance)
    /\ result.amount = call.amount

EntireBalanceWarning(v) == Mentions(v.warnings, "entire balance")

RemainingBalanceWarning(v) == Mentions(v.warnings, "% of balance. Only ")

\* C12 as stated: for every balance, validate_amount(amount, 9, balance)
\* with amount == balance returns requires_confirmation = true and a warning
\* mentioning "entire balance", and with amount == balance / 2 returns no
\* warnings and requires_confirmation = false.
C12_FullAndHalfBalance_AnyBalance ==
  (ReturnedFrom("validate_amount") /\ call.decimals = SolDecimals) =>
    /\ call.amount = call.balance =>
         result.requires_confirmation /\ EntireBalanceWarning(result)
    /\ call.amount = call.balance \div 2 =>
         result.warnings = <<>> /\ ~result.requires_confirmation

\* C12: for every balance > 0, validate_amount(amount, 9, balance) with
\* amount == balance returns requires_confirmation = true and a warning
\* mentioning "entire balance"; for every balance >= 2, with
\* amount == balance / 2 it returns no warnings and
\* requires_confirmation = false.
C12_FullAndHalfBalance ==
  (ReturnedFrom("validate_amount") /\ call.decimals = SolDecimals) =>
    /\ (call.balance > 0 /\ call.amount = call.balance) =>
         result.requires_confirmation /\ EntireBalanceWarning(result)
    /\ (call.balance >= 2 /\ call.amount = call.balance \div 2) =>
         result.warnings = <<>> /\ ~result.requires_confirmation

\* the whole of 1 SOL was validated with 9 decimals
C12_Witness ==
  /\ ReturnedFrom("validate_amount")
  /\ call.decimals = SolDecimals
  /\ call.balance = LAMPORTS_PER_SOL
  /\ call.amount = call.balance
  /\ result.requires_confirmation
  /\ EntireBalanceWarning(result)

\* amount / balance * 100 > 99 and > 90, in exact arithmetic
Above99(amount, bal) ==
  amount > bal \/ (bal - amount <= bal \div 100 /\ 100 * (bal - amount) < bal)

Above90(amount, bal) ==
  amount > bal \/ (bal - amount <= bal \div 10 /\ 10 * (bal - amount) < bal)

\* C13: in validate_amount with balance > 0, a percentage above 99 yields the
\* "entire balance" warning, a percentage above 90 and at most 99 yields the
\* remaining-balance warning instead, both with requires_confirmation = true;
\* with a percentage of at most 90, or balance == 0, neither warning is
\* produced and requires_confirmation = false.  The two warnings never come
\* together.
C13_PercentageWarnings ==
  ReturnedFrom("validate_amount") =>
    LET entire == call.balance > 0 /\ Above99(call.amount, call.balance)
        most == call.balance > 0 /\ ~entire /\ Above90(call.amount, call.balance)
    IN /\ EntireBalanceWarning(result) = entire
       /\ RemainingBalanceWarning(result) = most
       /\ result.requires_confirmation = (entire \/ most)
       /\ ~(EntireBalanceWarning(result) /\ RemainingBalanceWarning(result))

\* exactly 99 percent was validated: the remaining-balance warning
C13_Witness ==
  /\ ReturnedFrom("validate_amount")
  /\ call.balance = 100
  /\ call.amount = 99
  /\ RemainingBalanceWarning(result)
  /\ ~EntireBalanceWarning(result)
  /\ result.requires_confirmation

\* number of whitespace characters at the start and at the end of s
RECURSIVE LeadingWs(_)
LeadingWs(s) ==
  IF s = "" \/ ~IsWhitespace(Head(s)) THEN 0 ELSE 1 + LeadingWs(Tail(s))

RECURSIVE TrailingWs(_)
TrailingWs(s) ==
  IF s = "" \/ ~IsWhitespace(SubSeq(s, Len(s), Len(s))) THEN 0
  ELSE 1 + TrailingWs(Front(s))

\* s without its leading and trailing whitespace
Stripped(s) ==
  IF LeadingWs(s) = Len(s) THEN ""
  ELSE SubSeq(s, LeadingWs(s) + 1, Len(s) - TrailingWs(s))

\* number of places of s at which part occurs
Occurrences(s, part) ==
  Cardinality({i \in 1..(Len(s) - Len(part) + 1) :
                 SubSeq(s, i, i + Len(part) - 1) = part})

EmptyAddressError(r) == ~r.ok /\ r.reason = "Address cannot be empty"

\* the reason names the range 32-44 and the length n
LengthError(r, n) ==
  /\ ~r.ok
  /\ Contains(r.reason, "Invalid length")
  /\ Contains(r.reason, "32-44")
  /\ Contains(r.reason, "got " \o ToString(n))

\* C14: verify_address fails with the empty-address error whenever the input
\* is empty after trimming leading and trailing whitespace.
C14_EmptyAfterTrimIsEmptyError ==
  (ReturnedFrom("verify_address") /\ Stripped(call.address) = "") =>
    EmptyAddressError(result)

\* C15 as stated: every string of length outside [32,44] fails with a reason
\* that reports the expected range and the actual length.
C15_LengthError_AnyString ==
  (ReturnedFrom("verify_address") /\ Len(call.address) \notin 32..44) =>
    LengthError(result, Len(call.address))

\* C15: every string whose length after trimming is not 0 and outside
\* [32,44] fails with a reason that reports the expected range 32-44 and the
\* trimmed length.
C15_LengthError ==
  (/\ ReturnedFrom("verify_address")
   /\ Stripped(call.address) # ""
   /\ Len(Stripped(call.address)) \notin 32..44) =>
    LengthError(result, Len(Stripped(call.address)))

\* a padded text of 45 characters was refused for its length
C15_Witness ==
  /\ ReturnedFrom("verify_address")
  /\ LeadingWs(call.address) > 0
  /\ Len(Stripped(call.address)) = 45
  /\ LengthError(result, 45)

Excluded == {"0", "O", "I", "l"}

HasExcluded(s) == \E i \in 1..Len(s) : SubSeq(s, i, i) \in Excluded

\* the reason cites invalid characters and quotes each of 0, O, I, l as many
\* times as s has it
InvalidCharsError(r, s) ==
  /\ ~r.ok
  /\ Contains(r.reason, "Invalid base58 characters")
  /\ \A c \in Excluded :
       Occurrences(r.reason, "'" \o c \o "'") = Occurrences(s, c)

\* C16 as stated: every string containing any of 0, O, I, l fails citing
\* invalid characters, and the error lists every offending character.
C16_InvalidChars_AnyString ==
  (ReturnedFrom("verify_address") /\ HasExcluded(call.address)) =>
    InvalidCharsError(result, call.address)

\* C16: every string whose length after trimming is in [32,44] and which
\* contains any of 0, O, I, l fails citing invalid characters, and the error
\* lists every offending character of the input.
C16_InvalidChars ==
  (/\ ReturnedFrom("verify_address")
   /\ Len(Stripped(call.address)) \in 32..44
   /\ HasExcluded(call.address)) =>
    InvalidCharsError(result, call.address)

\* a text of 44 characters with O, I, l, l was refused for these four
C16_Witness ==
  /\ ReturnedFrom("verify_address")
  /\ Len(Stripped(call.address)) = 44
  /\ Occurrences(call.address, "l") = 2
  /\ Occurrences(call.address, "O") = 1
  /\ InvalidCharsError(result, call.address)

\* the indices below the longer length at which s and t differ, or only one
\* of them has a character
DifferingIndices(s, t) ==
  {i \in 0..(Max(Len(s), Len(t)) - 1) :
     \/ i >= Len(s)
     \/ i >= Len(t)
     \/ SubSeq(s, i + 1, i + 1) # SubSeq(t, i + 1, i + 1)}

Ascending(seq) == \A i \in 1..(Len(seq) - 1) : seq[i] < seq[i + 1]

\* C17: compare_addresses(a, b) trims both; it returns matches = true with
\* difference_count = 0 and no positions exactly when the trimmed strings are
\* equal, and otherwise matches = false with difference_positions the
\* ascending list of every index below the longer length at which the
\* characters differ or only one string has a character, and
\* difference_count the length of that list, at least 1.
C17_ComparisonIsPositional ==
  ReturnedFrom("compare_addresses") =>
    LET s == Stripped(call.addr1)
        t == Stripped(call.addr2)
        positions == result.difference_positions
    IN IF s = t
       THEN result.matches /\ result.difference_count = 0 /\ positions = <<>>
       ELSE /\ ~result.matches
            /\ Ascending(positions)
            /\ {positions[k] : k \in 1..Len(positions)} = DifferingIndices(s, t)
            /\ result.difference_count = Len(positions)
            /\ result.difference_count >= 1

\* a key was compared with its first 43 characters: one difference, at 43
C17_Witness ==
  /\ ReturnedFrom("compare_addresses")
  /\ Len(Stripped(call.addr1)) = 44
  /\ Len(Stripped(call.addr2)) = 43
  /\ result.difference_positions = <<43>>
  /\ ~result.matches

\* b is a with exactly one character replaced by a different one
OneReplaced(a, b) ==
  Len(a) = Len(b) /\ Cardinality(DifferingIndices(a, b)) = 1

\* the one replacement involves no whitespace
NoBlankReplaced(a, b) ==
  \A i \in DifferingIndices(a, b) :
    ~IsWhitespace(SubSeq(a, i + 1, i + 1)) /\ ~IsWhitespace(SubSeq(b, i + 1, i + 1))

\* C18 as stated: likely_typo is true exactly when 0 < difference_count <= 2;
\* replacing exactly one character of an address by a different character
\* gives difference_count == 1 and likely_typo == true; identical addresses
\* give likely_typo == false.
C18_LikelyTypo_AnyReplacement ==
  ReturnedFrom("compare_addresses") =>
    /\ result.likely_typo = (0 < result.difference_count /\ result.difference_count <= 2)
    /\ OneReplaced(call.addr1, call.addr2) =>
         result.difference_count = 1 /\ result.likely_typo
    /\ call.addr1 = call.addr2 => ~result.likely_typo

\* C18: likely_typo is true exactly when 0 < difference_count <= 2;
\* replacing exactly one character of an address by a different character,
\* neither of the two being whitespace, gives difference_count == 1 and
\* likely_typo == true; identical addresses give likely_typo == false.
C18_LikelyTypo ==
  ReturnedFrom("compare_addresses") =>
    /\ result.likely_typo = (0 < result.difference_count /\ result.difference_count <= 2)
    /\ (OneReplaced(call.addr1, call.addr2) /\ NoBlankReplaced(call.addr1, call.addr2)) =>
         result.difference_count = 1 /\ result.likely_typo
    /\ call.addr1 = call.addr2 => ~result.likely_typo

\* a key was compared with the key whose last character is replaced
C18_Witness ==
  /\ ReturnedFrom("compare_addresses")
  /\ OneReplaced(call.addr1, call.addr2)
  /\ NoBlankReplaced(call.addr1, call.addr2)
  /\ result.difference_positions = <<43>>
  /\ result.likely_typo

RECURSIVE Pow5(_)
Pow5(n) == IF n = 0 THEN 1 ELSE 5 * Pow5(n - 1)

StripLeadingZeros(bits) ==
  IF ~AnyOne(bits) THEN <<>>
  ELSE SubSeq(bits, CHOOSE j \in 1..Len(bits) :
                      bits[j] = 1 /\ \A m \in 1..(j - 1) : bits[m] = 0,
              Len(bits))

\* x * 10^d without rounding, for a finite x > 0: the binary digits of its
\* integer part and of its fraction
ExactProduct(x, d) ==
  LET p == StripLeadingZeros(MulBits(x.man, Pow5(d), 0))
      s == x.exp - (F64Digits - 1) + d
  IN IF s >= 0 THEN [int |-> p \o Zeros(s), frac |-> <<>>]
     ELSE IF -s >= Len(p) THEN [int |-> <<>>, frac |-> Zeros(-s - Len(p)) \o p]
     ELSE [int |-> SubSeq(p, 1, Len(p) + s), frac |-> SubSeq(p, Len(p) + s + 1, Len(p))]

\* human_amount * 10^decimals is above u64::MAX = 2^64 - 1.  For decimals
\* beyond 19 every positive amount of the model (at least 1/1000, with
\* decimals = 64) is.
ExceedsU64(x, d) ==
  IF x.cls = "zero" THEN FALSE
  ELSE IF Pow10Overflows(d) THEN TRUE
  ELSE LET e == ExactProduct(x, d)
       IN \/ Len(e.int) > U64Bits
          \/ Len(e.int) = U64Bits /\ (\A i \in 1..U64Bits : e.int[i] = 1) /\ AnyOne(e.frac)

\* v is human_amount * 10^decimals rounded to the nearest integer (either
\* neighbour when the product lies half way)
IsNearest(v, x, d) ==
  IF x.cls = "zero" THEN v = <<>>
  ELSE LET e == ExactProduct(x, d)
           above == e.frac # <<>> /\ e.frac[1] = 1
           tie == above /\ ~AnyOne(Tail(e.frac))
       IN \/ ~above /\ v = e.int
          \/ above /\ v = BitsPlusOne(e.int)
          \/ tie /\ v = e.int

OverflowError(r) == ~r.ok /\ Contains(r.message, "overflow")

FiniteNonNegative(x) == x.cls \in {"zero", "num"}

\* C19: for every finite non-negative human_amount and every decimals of the
\* u8 range, human_to_token_amount fails with the overflow error whenever
\* human_amount * 10^decimals exceeds u64::MAX, and otherwise returns that
\* product rounded to the nearest integer.
C19_OverflowOrNearest ==
  (Ended("human_to_token_amount") /\ FiniteNonNegative(call.human_amount)) =>
    /\ pc = "returned"
    /\ IF ExceedsU64(call.human_amount, call.decimals)
       THEN OverflowError(result)
       ELSE result.ok /\ IsNearest(result.value, call.human_amount, call.decimals)

\* the same for decimals <= 19 and products other than 2^64
C19_AwayFromTheEdges ==
  (/\ Ended("human_to_token_amount")
   /\ FiniteNonNegative(call.human_amount)
   /\ ~Pow10Overflows(call.decimals)
   /\ ~(call.human_amount = F64TwoPow(U64Bits) /\ call.decimals = 0)) =>
    /\ pc = "returned"
    /\ IF ExceedsU64(call.human_amount, call.decimals)
       THEN OverflowError(result)
       ELSE result.ok /\ IsNearest(result.value, call.human_amount, call.decimals)

\* the examples of the source: (1.5, 9) gives 1_500_000_000 and (0.001, 9)
\* gives 1_000_000
C19_Examples ==
  (ReturnedFrom("human_to_token_amount") /\ call.decimals = SolDecimals) =>
    /\ call.human_amount = Ratio(3, 2) =>
         result.ok /\ result.value = IntToBits(1500000000)
    /\ call.human_amount = Ratio(1, 1000) =>
         result.ok /\ result.value = IntToBits(1000000)

\* floor(log10 x) for 1 <= x < 10^9, by comparison with the powers of ten
Log10Floor(x) ==
  CHOOSE e \in 0..8 :
    F64Ge(x, F64FromU64(Pow10(e))) /\ ~F64Ge(x, F64FromU64(Pow10(e + 1)))

\* Rule A applies to the parsed number x
RuleA(x) ==
  /\ F64Ge(x, F64FromU64(1000))
  /\ F64Ge(F64Div(x, F64FromU64(1000)), Ratio(1, 1000))
  /\ F64Ge(F64FromU64(100), F64Div(x, F64FromU64(1000)))

\* Rule B applies to the parsed number x
RuleB(x) ==
  /\ F64Ge(x, F64FromU64(100))
  /\ F64IsInteger(x)
  /\ Log10Floor(x) - 1 >= 2
  /\ F64Ge(F64Div(x, F64FromU64(Pow10(Log10Floor(x) - 1))), Ratio(1, 10))
  /\ F64Ge(F64FromU64(10), F64Div(x, F64FromU64(Pow10(Log10Floor(x) - 1))))

C20_BothRules ==
  (ReturnedFrom("detect_magnitude_error") /\ call.input_string = "1000") =>
    /\ RuleA(F64FromU64(1000)) /\ RuleB(F64FromU64(1000))
    /\ result.intended_amount = F64FromU64(1)
    /\ result.explanation = "Did you mean 1.000 instead of 1000? (European decimal notation)"

UpstreamErrors == {[variant |-> "RpcError", message |-> e] : e \in RpcErrors}

\* C22: when the balance lookup fails, validate_transfer does not retry,
\* returns the upstream error unchanged and produces no SafetyReport.
C22_LookupErrorAsIs ==
  pc = "error" =>
    /\ error \in UpstreamErrors
    /\ validation = None

\* C23: validation never modifies the SafetyProtocol: when validation calls
\* that share one policy are interleaved in any order, each returns exactly
\* the report it returns when run alone on the same inputs, and strict_mode,
\* large_amount_threshold_usd and token_price_usd are unchanged by the steps
\* of a call.
C23_SharedPolicyIsReadOnly ==
  /\ [](Returned =>
          report = validate_offline(protocol, call.from, call.to, call.amount,
                                    call.decimals, balance))
  /\ [][~NoCallRunning => protocol' = protocol]_vars

\* both calls have returned, with different verdicts, under a policy with a
\* price
C23_Witness ==
  /\ Returned
  /\ other.pc = "done"
  /\ report.approved
  /\ ~other.report.approved
  /\ protocol.token_price_usd # None

IsPrefix(a, b) == Len(a) <= Len(b) /\ SubSeq(b, 1, Len(a)) = a

\* a step of a running call from one value of its report to the next
ReportStep == pc \notin {"idle", "done", "error"} /\ report # None /\ report' # None

\* C24: along the add_warning and add_blocker steps applied to the report of
\* one validation call, risk_level never decreases, approved never changes
\* from false back to true, requires_confirmation never changes from true
\* back to false, and entries are only appended to blockers.
C24_ReportIsMonotone ==
  [][ReportStep =>
       /\ RiskOrd(report'.risk_level) >= RiskOrd(report.risk_level)
       /\ report'.approved => report.approved
       /\ report.requires_confirmation => report'.requires_confirmation
       /\ IsPrefix(report.blockers, report'.blockers)]_vars

\* a blocker was added and then a warning: the report stays Critical and blocked
C24_Witness ==
  /\ Returned
  /\ Len(added) >= 2
  /\ added[1] = "Critical"
  /\ added[Len(added)] = "High"
  /\ report.risk_level = "Critical"
  /\ ~report.approved
  /\ report.requires_confirmation

StrictPrefixed(warnings) == [i \in 1..Len(warnings) |-> "STRICT: " \o warnings[i]]

\* C25: the report of a strict policy relates to the report of the otherwise
\* identical non-strict policy on the same input as follows: its blockers
\* are the non-strict blockers followed by "STRICT: " + w for each non-strict
\* warning w in the same order, its warnings are empty, the total number of
\* entries is the same, and when the non-strict report has no warnings the
\* two reports are identical.
C25_StrictRefinesNonStrict ==
  (Returned /\ protocol.strict_mode) =>
    LET ns == ReportUnder(NonStrict(protocol))
    IN /\ report.blockers = ns.blockers \o StrictPrefixed(ns.warnings)
       /\ report.warnings = <<>>
       /\ Len(Entries) = Len(ns.warnings) + Len(ns.blockers)
       /\ ns.warnings = <<>> => report = ns

\* a strict report that turned two warnings into blockers
C25_Witness ==
  /\ Returned
  /\ protocol.strict_mode
  /\ Len(ReportUnder(NonStrict(protocol)).warnings) >= 2
  /\ Len(report.blockers) >= 2

C27_ConfirmationCarriedOver ==
  (Returned /\ call.kind = "offline") =>
    (validate_amount(call.amount, call.decimals, balance).requires_confirmation
       => report.requires_confirmation)

\* the digits of a text without the zeros it begins with
RECURSIVE WithoutLeadingZeros(_)
WithoutLeadingZeros(s) ==
  IF s # "" /\ Head(s) = "0" THEN WithoutLeadingZeros(Tail(s)) ELSE s

\* text, read as a decimal number, is n / 10^decimals
ReadsAs(text, n, decimals) ==
  LET dots == {i \in 1..Len(text) : SubSeq(text, i, i) = "."}
      dot == IF dots = {} THEN Len(text) + 1 ELSE CHOOSE i \in dots : TRUE
      whole == SubSeq(text, 1, dot - 1)
      fraction == SubSeq(text, dot + 1, Len(text))
  IN /\ Cardinality(dots) <= 1
     /\ whole # ""
     /\ \A i \in 1..Len(text) : i \in dots \/ IsDigit(SubSeq(text, i, i))
     /\ Len(fraction) <= decimals
     /\ WithoutLeadingZeros(whole \o fraction \o Repeat("0", decimals - Len(fraction)))
          = WithoutLeadingZeros(ToString(n))

\* C28: format_amount_with_symbol preserves the value it displays: for every
\* amount and every decimals including decimals = 0, the numeric part of the
\* output read as a decimal number equals amount / 10^decimals, and it is
\* followed by one space and the symbol.
C28_DisplayedValueIsTheAmount ==
  Ended("format_amount_with_symbol") =>
    /\ pc = "returned"
    /\ LET tail == Len(call.symbol) + 1
       IN /\ Len(result) >= tail
          /\ SubSeq(result, Len(result) - tail + 1, Len(result)) = " " \o call.symbol
          /\ ReadsAs(SubSeq(result, 1, Len(result) - tail), call.amount, call.decimals)

\* the same, of the calls with 1 <= decimals <= 19
C28_WithAFraction ==
  (Ended("format_amount_with_symbol") /\ call.decimals \in 1..MaxPow10Exp) =>
    /\ pc = "returned"
    /\ LET tail == Len(call.symbol) + 1
       IN /\ Len(result) >= tail
          /\ SubSeq(result, Len(result) - tail + 1, Len(result)) = " " \o call.symbol
          /\ ReadsAs(SubSeq(result, 1, Len(result) - tail), call.amount, call.decimals)

\* the outputs of test_human_readable_formatting
C28_Examples ==
  /\ format_amount_with_symbol(3 * (LAMPORTS_PER_SOL \div 2), SolDecimals, "SOL") = "1.5 SOL"
  /\ format_amount_with_symbol(LAMPORTS_PER_SOL \div 1000, SolDecimals, "SOL") = "0.001 SOL"
  /\ format_amount_with_symbol(100 * Pow10(UsdcDecimals), UsdcDecimals, "USDC") = "100 USDC"
  /\ format_amount_with_symbol(1, SolDecimals, "SOL") = "0.000000001 SOL"
  /\ format_amount_with_symbol(100, 0, "SOL") = "1 SOL"
  /\ format_amount_with_symbol(0, 0, "SOL") = " SOL"

\* C29: in validate_amount the unsigned subtraction balance - amount that
\* computes the remaining balance is evaluated only when amount <= balance,
\* so it never underflows, whatever the amount and the balance (amount >
\* balance and balance = 0 included).
C29_RemainingBalanceNeverUnderflows ==
  /\ pc # "underflowed"
  /\ (Ended("validate_amount") /\ SendsMost(call.amount, call.balance)) =>
       call.amount <= call.balance

\* a call that computed a remaining balance, next to calls of the other
\* branches: the warning names what remains
C29_Witness ==
  /\ ReturnedFrom("validate_amount")
  /\ SendsMost(call.amount, call.balance)
  /\ call.balance - call.amount = 1
  /\ call.decimals = 0
  /\ Mentions(result.warnings, "Only 1 will remain.")

Sends == Len(tx.sent)

AllFailed(k) == \A i \in 1..k : ~tx.sent[i].ok

TxReturned == tx # None /\ pc = "returned"

\* what the claim says of the sends and of the Ok result
SendsAreBounded ==
  tx # None =>
    /\ Sends <= tx.config.max_retries + 1
    /\ AllFailed(Sends - 1)
    /\ (Sends > 0 /\ tx.sent[Sends].ok) => (pc = "returned" /\ result = tx.sent[Sends])
    /\ (TxReturned /\ result.ok) => (Sends > 0 /\ result = tx.sent[Sends])

\* C30 as stated: execute_transaction always terminates its send loop: it
\* calls send_and_confirm_transaction at most max_retries + 1 times, returns
\* the signature of the first successful send without sending again, and
\* returns a TransactionError only after all max_retries + 1 attempts have
\* failed.
C30_BoundedRetries ==
  /\ [](SendsAreBounded
          /\ ((TxReturned /\ ~result.ok /\ result.variant = "TransactionError")
                => (Sends = tx.config.max_retries + 1 /\ AllFailed(Sends))))
  /\ (pc = "send") ~> (pc = "returned")

\* C30, amended: the TransactionError "Failed after N retries" is returned
\* only after all max_retries + 1 attempts have failed; the TransactionError
\* "Simulation failed" is returned before the first send.
C30_BoundedRetriesOfTheSendLoop ==
  /\ [](SendsAreBounded
          /\ ((TxReturned /\ ~result.ok /\ result.variant = "TransactionError")
                => \/ /\ Contains(result.message, "Failed after ")
                      /\ Sends = tx.config.max_retries + 1
                      /\ AllFailed(Sends)
                   \/ /\ Contains(result.message, "Simulation failed: ")
                      /\ tx.config.simulate_before_send
                      /\ Sends = 0))
  /\ (pc = "send") ~> (pc = "returned")

\* the executor gave up after the last of its attempts
C30_Witness ==
  /\ TxReturned
  /\ ~result.ok
  /\ result.variant = "TransactionError"
  /\ tx.config.max_retries = MaxRetries
  /\ Sends = MaxRetries + 1
  /\ AllFailed(Sends)
====
